---------------------------- MODULE Spec2Model ----------------------------
(***************************************************************************)
(* Model of the token-mints on-ledger program: the three handlers of       *)
(* src/src/token.rs (create_and_init_mint, create_ata_for,                 *)
(* burn_user_tokens), the dispatcher of src/src/lib.rs, and the part of    *)
(* the host runtime and of the token programs that the handlers call into. *)
(*                                                                         *)
(* u64 values are little-endian sequences of 8 bytes, so that the width of *)
(* the arithmetic of burn_user_tokens is the width of the code.            *)
(***************************************************************************)
EXTENDS Integers, Sequences, FiniteSets

(***************************************************************************)
(* Unsigned arithmetic on little-endian byte sequences.                    *)
(***************************************************************************)
RECURSIVE FromNat(_, _)
\* n written on len bytes, least significant first
FromNat(n, len) ==
    IF len = 0 THEN <<>> ELSE <<n % 256>> \o FromNat(n \div 256, len - 1)

RECURSIVE IsZero(_)
IsZero(a) == IF a = <<>> THEN TRUE ELSE Head(a) = 0 /\ IsZero(Tail(a))

RECURSIVE MulSmall(_, _, _)
\* a * k + carry, for a small k; one byte longer than a
MulSmall(a, k, carry) ==
    IF a = <<>> THEN <<carry>>
    ELSE LET t == Head(a) * k + carry
         IN  <<t % 256>> \o MulSmall(Tail(a), k, t \div 256)

RECURSIVE AddBytes(_, _, _)
\* a + b + carry, for a and b of the same length; one byte longer
AddBytes(a, b, carry) ==
    IF a = <<>> THEN <<carry>>
    ELSE LET t == Head(a) + Head(b) + carry
         IN  <<t % 256>> \o AddBytes(Tail(a), Tail(b), t \div 256)

RECURSIVE SubBytes(_, _, _)
\* a - b - borrow, for a >= b of the same length
SubBytes(a, b, borrow) ==
    IF a = <<>> THEN <<>>
    ELSE LET t == Head(a) - Head(b) - borrow
         IN  <<t % 256>> \o SubBytes(Tail(a), Tail(b), IF t < 0 THEN 1 ELSE 0)

RECURSIVE LessBytes(_, _)
\* a < b, for a and b of the same length
LessBytes(a, b) ==
    IF a = <<>> THEN FALSE
    ELSE LET n == Len(a)
         IN  \/ a[n] < b[n]
             \/ a[n] = b[n] /\ LessBytes(SubSeq(a, 1, n - 1), SubSeq(b, 1, n - 1))

Pad(a, len) == a \o [i \in 1..(len - Len(a)) |-> 0]

RECURSIVE MulBytes(_, _)
\* the full product a * b, on Len(a) + Len(b) bytes
MulBytes(a, b) ==
    IF b = <<>> THEN [i \in 1..Len(a) |-> 0]
    ELSE LET low  == MulSmall(a, Head(b), 0)
             high == <<0>> \o MulBytes(a, Tail(b))
             sum  == AddBytes(Pad(low, Len(high)), high, 0)
         IN  SubSeq(sum, 1, Len(high))

\* the mathematical value of a does not fit in 8 bytes
ExceedsU64(a) == Len(a) > 8 /\ ~IsZero(SubSeq(a, 9, Len(a)))

(***************************************************************************)
(* u64, as the code uses it.                                               *)
(***************************************************************************)
U64_BYTES == 8
U64_MAX == [i \in 1..U64_BYTES |-> 255]
U64(n) == FromNat(n, U64_BYTES)

\* u64::wrapping_mul by a small constant
u64_wrapping_mul_small(a, k) == SubSeq(MulSmall(a, k, 0), 1, U64_BYTES)

\* u64::checked_mul: the product, or None on overflow
u64_checked_mul(a, b) ==
    LET p == MulBytes(a, b)
    IN  IF ExceedsU64(p) THEN [some |-> FALSE]
        ELSE [some |-> TRUE, value |-> SubSeq(p, 1, U64_BYTES)]

\* u64::checked_sub
u64_checked_sub(a, b) ==
    IF LessBytes(a, b) THEN [some |-> FALSE]
    ELSE [some |-> TRUE, value |-> SubBytes(a, b, 0)]

\* u64::checked_add
u64_checked_add(a, b) ==
    LET s == AddBytes(a, b, 0)
    IN  IF ExceedsU64(s) THEN [some |-> FALSE]
        ELSE [some |-> TRUE, value |-> SubSeq(s, 1, U64_BYTES)]

RECURSIVE u64_wrapping_pow_from(_, _)
\* acc * 10^d modulo 2^64 (0 stays 0)
u64_wrapping_pow_from(acc, d) ==
    IF d = 0 \/ IsZero(acc) THEN acc
    ELSE u64_wrapping_pow_from(u64_wrapping_mul_small(acc, 10), d - 1)

\* 10u64.pow(d) of a build without overflow checks: 10^d modulo 2^64
u64_pow10_wrapping(d) == u64_wrapping_pow_from(U64(1), d)

\* u64::checked_mul by a small constant
u64_checked_mul_small(a, k) ==
    LET q == MulSmall(a, k, 0)
    IN  IF ExceedsU64(q) THEN [some |-> FALSE]
        ELSE [some |-> TRUE, value |-> SubSeq(q, 1, U64_BYTES)]

RECURSIVE u64_checked_pow_from(_, _)
\* acc * 10^d, or None once a multiplication by 10 leaves the u64 range
u64_checked_pow_from(acc, d) ==
    IF d = 0 \/ ~acc.some THEN acc
    ELSE u64_checked_pow_from(u64_checked_mul_small(acc.value, 10), d - 1)

\* 10u64.checked_pow(d)
u64_pow10_checked(d) == u64_checked_pow_from([some |-> TRUE, value |-> U64(1)], d)

\* 10u64.pow(d) overflows the u64 range
u64_pow10_overflows(d) == ~u64_pow10_checked(d).some

(***************************************************************************)
(* Addresses.  Wallet keys, program ids, the program-derived mint          *)
(* addresses and the associated holder-account addresses are distinct      *)
(* integers; the two derivations are injective.                            *)
(***************************************************************************)
PAYER == 1
OWNER == 2
system_program_id == 3
spl_token_id == 4
ata_id == 5
rent_sysvar_id == 6

Wallets == {PAYER, OWNER}

\* the bump seeds a caller may put in the payload (u8)
Bumps == {253, 254, 255}
\* the bump seeds whose hash is a point of the curve: no address is derived
OnCurveBumps == {255}

\* Pubkey::create_program_address(mint_seeds, program_id)
create_program_address(mint_seeds) ==
    IF mint_seeds[2] \in OnCurveBumps THEN [ok |-> FALSE]
    ELSE [ok |-> TRUE, key |-> 1000 + mint_seeds[2]]

\* find_program_address(&[b"MINT"], program_id): the first bump from 255 down
\* that derives an address
find_mint_pda ==
    LET bump == CHOOSE b \in Bumps :
                  /\ create_program_address(<<"MINT", b>>).ok
                  /\ \A c \in Bumps : c > b => ~create_program_address(<<"MINT", c>>).ok
    IN  [key |-> create_program_address(<<"MINT", bump>>).key, bump |-> bump]

MintAddrs == {create_program_address(<<"MINT", b>>).key : b \in Bumps \ OnCurveBumps}

\* ata::get_associated_token_address_with_program_id(owner, mint, token program)
get_associated_token_address(owner, mint, token_program) ==
    100000 * token_program + 10000 * owner + mint

\* the holder accounts of the model: those of the two wallets for the mint
\* at the canonical derived address
AtaAddrs == {get_associated_token_address(o, find_mint_pda.key, spl_token_id) : o \in Wallets}

Addrs == Wallets \cup MintAddrs \cup AtaAddrs

(***************************************************************************)
(* Accounts of the ledger and their data, as the token program lays it out *)
(***************************************************************************)
SplMint_LEN == 82
SplAccount_LEN == 165

NoData == [len |-> 0]
Zeroed(space) == [len |-> space, is_initialized |-> FALSE]
MintData(authority, decimals, supply) ==
    [len |-> SplMint_LEN, is_initialized |-> TRUE, mint_authority |-> authority,
     decimals |-> decimals, supply |-> supply]
TokenData(mint, owner, amount) ==
    [len |-> SplAccount_LEN, is_initialized |-> TRUE, mint |-> mint,
     owner |-> owner, amount |-> amount]

\* SplMint::unpack
SplMint_unpack(data) ==
    IF data.len # SplMint_LEN THEN [ok |-> FALSE, err |-> "InvalidAccountData"]
    ELSE IF ~data.is_initialized THEN [ok |-> FALSE, err |-> "UninitializedAccount"]
    ELSE [ok |-> TRUE, value |-> data]

\* SplAccount::unpack
SplAccount_unpack(data) ==
    IF data.len # SplAccount_LEN THEN [ok |-> FALSE, err |-> "InvalidAccountData"]
    ELSE IF ~data.is_initialized THEN [ok |-> FALSE, err |-> "UninitializedAccount"]
    ELSE [ok |-> TRUE, value |-> data]

\* Rent::get()?.minimum_balance(space)
minimum_balance(space) == (128 + space) * 6960

\* what the test harness funds its payer with
PAYER_LAMPORTS == 1000000000

\* a wallet or an address nothing was created at: owned by the system program
SystemAccount(lamports) ==
    [lamports |-> lamports, owner |-> system_program_id, data |-> NoData]

(***************************************************************************)
(* Account handles (AccountInfo) and the instructions of the programs the  *)
(* handlers call.  A handle's data is the ledger's account at its key.     *)
(***************************************************************************)
AccountInfo(key, is_signer, is_writable) ==
    [key |-> key, is_signer |-> is_signer, is_writable |-> is_writable]
AccountMeta(key, is_signer, is_writable) ==
    [key |-> key, is_signer |-> is_signer, is_writable |-> is_writable]

Keys(infos) == {infos[i].key : i \in 1..Len(infos)}

\* solana_system_interface::instruction::create_account
system_create_account(from, to, lamports, space, owner) ==
    [program_id |-> system_program_id, name |-> "CreateAccount",
     accounts |-> <<AccountMeta(from, TRUE, TRUE), AccountMeta(to, TRUE, TRUE)>>,
     from |-> from, to |-> to, lamports |-> lamports, space |-> space, owner |-> owner]

\* spl_token::instruction::initialize_mint2 (no freeze authority)
initialize_mint2(token_program, mint, mint_authority, decimals) ==
    [program_id |-> token_program, name |-> "InitializeMint2",
     accounts |-> <<AccountMeta(mint, FALSE, TRUE)>>,
     mint |-> mint, mint_authority |-> mint_authority, decimals |-> decimals]

\* ata::instruction::create_associated_token_account_idempotent
create_associated_token_account_idempotent(payer, owner, mint, token_program) ==
    LET address == get_associated_token_address(owner, mint, token_program)
    IN  [program_id |-> ata_id, name |-> "CreateIdempotent",
         accounts |-> <<AccountMeta(payer, TRUE, TRUE), AccountMeta(address, FALSE, TRUE),
                        AccountMeta(owner, FALSE, FALSE), AccountMeta(mint, FALSE, FALSE),
                        AccountMeta(system_program_id, FALSE, FALSE),
                        AccountMeta(token_program, FALSE, FALSE)>>,
         payer |-> payer, address |-> address, owner |-> owner, mint |-> mint]

\* spl_token::instruction::burn_checked (no multisig signers)
burn_checked(token_program, account, mint, authority, amount, decimals) ==
    [program_id |-> token_program, name |-> "BurnChecked",
     accounts |-> <<AccountMeta(account, FALSE, TRUE), AccountMeta(mint, FALSE, TRUE),
                    AccountMeta(authority, TRUE, FALSE)>>,
     account |-> account, mint |-> mint, authority |-> authority,
     amount |-> amount, decimals |-> decimals]

(***************************************************************************)
(* The called programs: what each instruction does to the ledger.          *)
(***************************************************************************)
Done(L) == [result |-> "Ok", ledger |-> L]
Refused(err, L) == [result |-> err, ledger |-> L]

\* a CreateAccount that allocates over an account that exists already
SystemCreateAccountOver(L, ix) ==
    IF ix.from \notin DOMAIN L \/ ix.to \notin DOMAIN L
    THEN Refused("MissingAccount", L)
    ELSE IF L[ix.from].lamports < ix.lamports
    THEN Refused("ResultWithNegativeLamports", L)
    ELSE Done([L EXCEPT ![ix.from].lamports = @ - ix.lamports,
                        ![ix.to] = [lamports |-> ix.lamports, owner |-> ix.owner,
                                    data |-> Zeroed(ix.space)]])

\* system program, CreateAccount
SystemCreateAccount(L, ix) ==
    IF ix.from \notin DOMAIN L \/ ix.to \notin DOMAIN L
    THEN Refused("MissingAccount", L)
    ELSE IF L[ix.to].lamports > 0 \/ L[ix.to].data.len > 0
            \/ L[ix.to].owner # system_program_id
    THEN Refused("AccountAlreadyInUse", L)
    ELSE IF L[ix.from].lamports < ix.lamports
    THEN Refused("ResultWithNegativeLamports", L)
    ELSE Done([L EXCEPT ![ix.from].lamports = @ - ix.lamports,
                        ![ix.to] = [lamports |-> ix.lamports, owner |-> ix.owner,
                                    data |-> Zeroed(ix.space)]])

\* token program, InitializeMint2
TokenInitializeMint2(L, ix) ==
    IF ix.mint \notin DOMAIN L THEN Refused("MissingAccount", L)
    ELSE IF L[ix.mint].owner # spl_token_id THEN Refused("IncorrectProgramId", L)
    ELSE IF L[ix.mint].data.len # SplMint_LEN THEN Refused("InvalidAccountData", L)
    ELSE IF L[ix.mint].data.is_initialized THEN Refused("AlreadyInUse", L)
    ELSE IF L[ix.mint].lamports < minimum_balance(SplMint_LEN)
    THEN Refused("NotRentExempt", L)
    ELSE Done([L EXCEPT ![ix.mint].data =
                   MintData(ix.mint_authority, ix.decimals, U64(0))])

\* associated-token-account program, Create: as CreateIdempotent, but an
\* account that exists already is refused
AtaCreate(L, ix) ==
    IF ix.address \notin DOMAIN L \/ ix.mint \notin DOMAIN L \/ ix.payer \notin DOMAIN L
    THEN Refused("MissingAccount", L)
    ELSE IF L[ix.address].owner # system_program_id THEN Refused("IllegalOwner", L)
    ELSE IF L[ix.mint].owner # spl_token_id THEN Refused("IncorrectProgramId", L)
    ELSE IF ~SplMint_unpack(L[ix.mint].data).ok THEN Refused("InvalidMint", L)
    ELSE IF L[ix.address].lamports > 0 \/ L[ix.address].data.len > 0
    THEN Refused("AccountAlreadyInUse", L)
    ELSE IF L[ix.payer].lamports < minimum_balance(SplAccount_LEN)
    THEN Refused("ResultWithNegativeLamports", L)
    ELSE Done([L EXCEPT ![ix.payer].lamports = @ - minimum_balance(SplAccount_LEN),
                        ![ix.address] = [lamports |-> minimum_balance(SplAccount_LEN),
                                         owner |-> spl_token_id,
                                         data |-> TokenData(ix.mint, ix.owner, U64(0))]])

\* associated-token-account program, CreateIdempotent
AtaCreateIdempotent(L, ix) ==
    IF ix.address \notin DOMAIN L \/ ix.mint \notin DOMAIN L \/ ix.payer \notin DOMAIN L
    THEN Refused("MissingAccount", L)
    ELSE IF L[ix.address].owner = spl_token_id
    THEN \* the account exists: succeed when it is the holder account asked for
         LET acc == SplAccount_unpack(L[ix.address].data)
         IN  IF ~acc.ok THEN Refused(acc.err, L)
             ELSE IF acc.value.owner # ix.owner THEN Refused("InvalidOwner", L)
             ELSE IF acc.value.mint # ix.mint THEN Refused("InvalidAccountData", L)
             ELSE Done(L)
    ELSE IF L[ix.address].owner # system_program_id THEN Refused("IllegalOwner", L)
    ELSE IF L[ix.mint].owner # spl_token_id THEN Refused("IncorrectProgramId", L)
    ELSE IF ~SplMint_unpack(L[ix.mint].data).ok THEN Refused("InvalidMint", L)
    ELSE IF L[ix.address].lamports > 0 \/ L[ix.address].data.len > 0
    THEN Refused("AccountAlreadyInUse", L)
    ELSE IF L[ix.payer].lamports < minimum_balance(SplAccount_LEN)
    THEN Refused("ResultWithNegativeLamports", L)
    ELSE Done([L EXCEPT ![ix.payer].lamports = @ - minimum_balance(SplAccount_LEN),
                        ![ix.address] = [lamports |-> minimum_balance(SplAccount_LEN),
                                         owner |-> spl_token_id,
                                         data |-> TokenData(ix.mint, ix.owner, U64(0))]])

\* token program, MintToChecked, run on the accounts of a BurnChecked: the
\* amount is added to the balance and to the supply
TokenMintToChecked(L, ix) ==
    IF ix.account \notin DOMAIN L \/ ix.mint \notin DOMAIN L
    THEN Refused("MissingAccount", L)
    ELSE IF L[ix.account].owner # spl_token_id \/ L[ix.mint].owner # spl_token_id
    THEN Refused("IncorrectProgramId", L)
    ELSE
    LET acc    == SplAccount_unpack(L[ix.account].data)
        mint   == SplMint_unpack(L[ix.mint].data)
        signed == \E m \in 1..Len(ix.accounts) :
                     ix.accounts[m].key = ix.authority /\ ix.accounts[m].is_signer
        amount == u64_checked_add(acc.value.amount, ix.amount)
        supply == u64_checked_add(mint.value.supply, ix.amount)
    IN  IF ~acc.ok THEN Refused(acc.err, L)
        ELSE IF ~mint.ok THEN Refused(mint.err, L)
        ELSE IF ~amount.some THEN Refused("Overflow", L)
        ELSE IF mint.value.decimals # ix.decimals THEN Refused("MintDecimalsMismatch", L)
        ELSE IF ~signed THEN Refused("MissingRequiredSignature", L)
        ELSE IF ~supply.some THEN Refused("Overflow", L)
        ELSE Done([L EXCEPT ![ix.account].data.amount = amount.value,
                            ![ix.mint].data.supply = supply.value])

\* token program, BurnChecked.  Of the token program only the checks of the
\* call's own contract are assumed: both accounts are its own and decode, the
\* amount is covered by the balance, the decimals are the mint's, the authority
\* has signed.  That the holder account belongs to the mint and to the
\* authority is what the handler's guards establish before the call.
TokenBurnChecked(L, ix) ==
    IF ix.account \notin DOMAIN L \/ ix.mint \notin DOMAIN L
    THEN Refused("MissingAccount", L)
    ELSE IF L[ix.account].owner # spl_token_id \/ L[ix.mint].owner # spl_token_id
    THEN Refused("IncorrectProgramId", L)
    ELSE
    LET acc    == SplAccount_unpack(L[ix.account].data)
        mint   == SplMint_unpack(L[ix.mint].data)
        signed == \E m \in 1..Len(ix.accounts) :
                     ix.accounts[m].key = ix.authority /\ ix.accounts[m].is_signer
        amount == u64_checked_sub(acc.value.amount, ix.amount)
        supply == u64_checked_sub(mint.value.supply, ix.amount)
    IN  IF ~acc.ok THEN Refused(acc.err, L)
        ELSE IF ~mint.ok THEN Refused(mint.err, L)
        ELSE IF ~amount.some THEN Refused("InsufficientFunds", L)
        ELSE IF mint.value.decimals # ix.decimals THEN Refused("MintDecimalsMismatch", L)
        ELSE IF ~signed THEN Refused("MissingRequiredSignature", L)
        ELSE IF ~supply.some THEN Refused("Overflow", L)
        ELSE Done([L EXCEPT ![ix.account].data.amount = amount.value,
                            ![ix.mint].data.supply = supply.value])

\* the program an instruction is addressed to
Execute(L, ix) ==
    IF ix.program_id = system_program_id /\ ix.name = "CreateAccount"
    THEN SystemCreateAccount(L, ix)
    ELSE IF ix.program_id = spl_token_id /\ ix.name = "InitializeMint2"
    THEN TokenInitializeMint2(L, ix)
    ELSE IF ix.program_id = ata_id /\ ix.name = "CreateIdempotent"
    THEN AtaCreateIdempotent(L, ix)
    ELSE IF ix.program_id = spl_token_id /\ ix.name = "BurnChecked"
    THEN TokenBurnChecked(L, ix)
    ELSE Refused("InvalidInstructionData", L)

(***************************************************************************)
(* The host's call-forwarding: invoke and invoke_signed.  tx_accounts are  *)
(* the handles of the running instruction, account_infos the ones the      *)
(* handler passes, signers the addresses derived from the signer seeds.    *)
(***************************************************************************)
invoke_signed(L, tx_accounts, ix, account_infos, signers) ==
    LET metas == ix.accounts
        Info(k) == account_infos[CHOOSE i \in 1..Len(account_infos) :
                                   account_infos[i].key = k]
    IN  IF \E m \in 1..Len(metas) : metas[m].key \notin Keys(account_infos)
        THEN Refused("MissingAccount", L)
        ELSE IF \E m \in 1..Len(metas) :
                   \/ metas[m].is_writable /\ ~Info(metas[m].key).is_writable
                   \/ /\ metas[m].is_signer
                      /\ ~Info(metas[m].key).is_signer
                      /\ metas[m].key \notin signers
        THEN Refused("PrivilegeEscalation", L)
        ELSE IF ix.program_id \notin Keys(tx_accounts)
        THEN Refused("MissingAccount", L)
        ELSE Execute(L, ix)

invoke(L, tx_accounts, ix, account_infos) ==
    invoke_signed(L, tx_accounts, ix, account_infos, {})

(***************************************************************************)
(* The handlers.  Each returns its result, the guard it failed at (or      *)
(* "none"), the calls it issued in order, each with its outcome, and the   *)
(* ledger as the calls left it.                                            *)
(***************************************************************************)
Fail(err, guard, L) ==
    [result |-> err, failed_at |-> guard, calls |-> <<>>, ledger |-> L]

Call(ix, outcome) == [ix |-> ix, result |-> outcome.result]

\* 10u64.pow(decimals as u32): a build with overflow checks panics on
\* overflow, a build without them wraps
u64_pow10(decimals, overflow_checks) ==
    IF u64_pow10_overflows(decimals) /\ overflow_checks
    THEN [panic |-> TRUE]
    ELSE [panic |-> FALSE, value |-> u64_pow10_wrapping(decimals)]

\* create_and_init_mint without the comparison of the mint handle's address with
\* the derived one
create_and_init_mint_any_address(L, accounts, mint_authority, mint_seeds, token_decimals) ==
    IF Len(accounts) < 4
    THEN Fail("NotEnoughAccountKeys", "next_account_info", L)
    ELSE
    LET payer          == accounts[1]
        token_mint     == accounts[2]
        system_program == accounts[3]
        token_program  == accounts[4]
        expected       == create_program_address(mint_seeds)
        space          == SplMint_LEN
        lamports       == minimum_balance(space)
        create_ix      == system_create_account(payer.key, token_mint.key, lamports,
                                                space, spl_token_id)
        created        == invoke_signed(L, accounts, create_ix,
                              <<token_program, payer, token_mint, system_program>>,
                              IF expected.ok THEN {expected.key} ELSE {})
        initialize_ix  == initialize_mint2(spl_token_id, token_mint.key,
                                           mint_authority, token_decimals)
        initialized    == invoke(created.ledger, accounts, initialize_ix, <<token_mint>>)
    IN  IF ~payer.is_signer
        THEN Fail("MissingRequiredSignature", "payer_signer", L)
        ELSE IF ~token_mint.is_writable
        THEN Fail("InvalidAccountData", "mint_writable", L)
        ELSE IF ~expected.ok
        THEN Fail("InvalidSeeds", "mint_address", L)
        ELSE IF created.result # "Ok"
        THEN [result |-> created.result, failed_at |-> "none",
              calls |-> <<Call(create_ix, created)>>, ledger |-> created.ledger]
        ELSE [result |-> initialized.result, failed_at |-> "none",
              calls |-> <<Call(create_ix, created), Call(initialize_ix, initialized)>>,
              ledger |-> initialized.ledger]

\* create_and_init_mint initializing the mint with the payer as its authority
create_and_init_mint_payer_authority(L, accounts, mint_authority, mint_seeds, token_decimals) ==
    IF Len(accounts) < 4
    THEN Fail("NotEnoughAccountKeys", "next_account_info", L)
    ELSE
    LET payer          == accounts[1]
        token_mint     == accounts[2]
        system_program == accounts[3]
        token_program  == accounts[4]
        expected       == create_program_address(mint_seeds)
        space          == SplMint_LEN
        lamports       == minimum_balance(space)
        create_ix      == system_create_account(payer.key, token_mint.key, lamports,
                                                space, spl_token_id)
        created        == invoke_signed(L, accounts, create_ix,
                              <<token_program, payer, token_mint, system_program>>,
                              IF expected.ok THEN {expected.key} ELSE {})
        initialize_ix  == initialize_mint2(spl_token_id, token_mint.key,
                                           payer.key, token_decimals)
        initialized    == invoke(created.ledger, accounts, initialize_ix, <<token_mint>>)
    IN  IF ~payer.is_signer
        THEN Fail("MissingRequiredSignature", "payer_signer", L)
        ELSE IF ~token_mint.is_writable
        THEN Fail("InvalidAccountData", "mint_writable", L)
        ELSE IF ~expected.ok
        THEN Fail("InvalidSeeds", "mint_address", L)
        ELSE IF token_mint.key # expected.key
        THEN Fail("InvalidSeeds", "mint_address", L)
        ELSE IF created.result # "Ok"
        THEN [result |-> created.result, failed_at |-> "none",
              calls |-> <<Call(create_ix, created)>>, ledger |-> created.ledger]
        ELSE [result |-> initialized.result, failed_at |-> "none",
              calls |-> <<Call(create_ix, created), Call(initialize_ix, initialized)>>,
              ledger |-> initialized.ledger]

\* create_and_init_mint going on to initialize-mint whatever create-account
\* has returned
create_and_init_mint_ignoring_create(L, accounts, mint_authority, mint_seeds, token_decimals) ==
    IF Len(accounts) < 4
    THEN Fail("NotEnoughAccountKeys", "next_account_info", L)
    ELSE
    LET payer          == accounts[1]
        token_mint     == accounts[2]
        system_program == accounts[3]
        token_program  == accounts[4]
        expected       == create_program_address(mint_seeds)
        space          == SplMint_LEN
        lamports       == minimum_balance(space)
        create_ix      == system_create_account(payer.key, token_mint.key, lamports,
                                                space, spl_token_id)
        created        == invoke_signed(L, accounts, create_ix,
                              <<token_program, payer, token_mint, system_program>>,
                              IF expected.ok THEN {expected.key} ELSE {})
        initialize_ix  == initialize_mint2(spl_token_id, token_mint.key,
                                           mint_authority, token_decimals)
        initialized    == invoke(created.ledger, accounts, initialize_ix, <<token_mint>>)
    IN  IF ~payer.is_signer
        THEN Fail("MissingRequiredSignature", "payer_signer", L)
        ELSE IF ~token_mint.is_writable
        THEN Fail("InvalidAccountData", "mint_writable", L)
        ELSE IF ~expected.ok
        THEN Fail("InvalidSeeds", "mint_address", L)
        ELSE IF token_mint.key # expected.key
        THEN Fail("InvalidSeeds", "mint_address", L)
        ELSE [result |-> initialized.result, failed_at |-> "none",
              calls |-> <<Call(create_ix, created), Call(initialize_ix, initialized)>>,
              ledger |-> initialized.ledger]

create_and_init_mint(L, accounts, mint_authority, mint_seeds, token_decimals) ==
    IF Len(accounts) < 4
    THEN Fail("NotEnoughAccountKeys", "next_account_info", L)
    ELSE
    LET payer          == accounts[1]
        token_mint     == accounts[2]
        system_program == accounts[3]
        token_program  == accounts[4]
        expected       == create_program_address(mint_seeds)
        space          == SplMint_LEN
        lamports       == minimum_balance(space)
        create_ix      == system_create_account(payer.key, token_mint.key, lamports,
                                                space, spl_token_id)
        created        == invoke_signed(L, accounts, create_ix,
                              <<token_program, payer, token_mint, system_program>>,
                              IF expected.ok THEN {expected.key} ELSE {})
        initialize_ix  == initialize_mint2(spl_token_id, token_mint.key,
                                           mint_authority, token_decimals)
        initialized    == invoke(created.ledger, accounts, initialize_ix, <<token_mint>>)
    IN  IF ~payer.is_signer
        THEN Fail("MissingRequiredSignature", "payer_signer", L)
        ELSE IF ~token_mint.is_writable
        THEN Fail("InvalidAccountData", "mint_writable", L)
        ELSE IF ~expected.ok
        THEN Fail("InvalidSeeds", "mint_address", L)
        ELSE IF token_mint.key # expected.key
        THEN Fail("InvalidSeeds", "mint_address", L)
        ELSE IF created.result # "Ok"
        THEN [result |-> created.result, failed_at |-> "none",
              calls |-> <<Call(create_ix, created)>>, ledger |-> created.ledger]
        ELSE [result |-> initialized.result, failed_at |-> "none",
              calls |-> <<Call(create_ix, created), Call(initialize_ix, initialized)>>,
              ledger |-> initialized.ledger]

\* create_ata_for with the payer's signature checked only after the call
create_ata_for_signer_after_call(L, accounts) ==
    IF Len(accounts) < 6
    THEN Fail("NotEnoughAccountKeys", "next_account_info", L)
    ELSE
    LET payer          == accounts[1]
        owner          == accounts[2]
        ata_acc        == accounts[3]
        token_mint     == accounts[4]
        token_program  == accounts[5]
        system_program == accounts[6]
        expected_ata   == get_associated_token_address(owner.key, token_mint.key,
                                                       spl_token_id)
        ata_instruction == create_associated_token_account_idempotent(
                               payer.key, owner.key, token_mint.key, spl_token_id)
        out            == invoke(L, accounts, ata_instruction,
                              <<payer, ata_acc, owner, token_mint, system_program,
                                token_program>>)
    IN  IF ata_acc.key # expected_ata
        THEN Fail("InvalidArgument", "ata_address", L)
        ELSE IF out.result # "Ok"
        THEN [result |-> out.result, failed_at |-> "none",
              calls |-> <<Call(ata_instruction, out)>>, ledger |-> out.ledger]
        ELSE IF ~payer.is_signer
        THEN [result |-> "MissingRequiredSignature", failed_at |-> "payer_signer",
              calls |-> <<Call(ata_instruction, out)>>, ledger |-> out.ledger]
        ELSE [result |-> out.result, failed_at |-> "none",
              calls |-> <<Call(ata_instruction, out)>>, ledger |-> out.ledger]

\* create_ata_for with its two guards in the other order
create_ata_for_signer_first(L, accounts) ==
    IF Len(accounts) < 6
    THEN Fail("NotEnoughAccountKeys", "next_account_info", L)
    ELSE
    LET payer          == accounts[1]
        owner          == accounts[2]
        ata_acc        == accounts[3]
        token_mint     == accounts[4]
        token_program  == accounts[5]
        system_program == accounts[6]
        expected_ata   == get_associated_token_address(owner.key, token_mint.key,
                                                       spl_token_id)
        ata_instruction == create_associated_token_account_idempotent(
                               payer.key, owner.key, token_mint.key, spl_token_id)
        out            == invoke(L, accounts, ata_instruction,
                              <<payer, ata_acc, owner, token_mint, system_program,
                                token_program>>)
    IN  IF ~payer.is_signer
        THEN Fail("MissingRequiredSignature", "payer_signer", L)
        ELSE IF ata_acc.key # expected_ata
        THEN Fail("InvalidArgument", "ata_address", L)
        ELSE [result |-> out.result, failed_at |-> "none",
              calls |-> <<Call(ata_instruction, out)>>, ledger |-> out.ledger]

create_ata_for(L, accounts) ==
    IF Len(accounts) < 6
    THEN Fail("NotEnoughAccountKeys", "next_account_info", L)
    ELSE
    LET payer          == accounts[1]
        owner          == accounts[2]
        ata_acc        == accounts[3]
        token_mint     == accounts[4]
        token_program  == accounts[5]
        system_program == accounts[6]
        expected_ata   == get_associated_token_address(owner.key, token_mint.key,
                                                       spl_token_id)
        ata_instruction == create_associated_token_account_idempotent(
                               payer.key, owner.key, token_mint.key, spl_token_id)
        out            == invoke(L, accounts, ata_instruction,
                              <<payer, ata_acc, owner, token_mint, system_program,
                                token_program>>)
    IN  IF ata_acc.key # expected_ata
        THEN Fail("InvalidArgument", "ata_address", L)
        ELSE IF ~payer.is_signer
        THEN Fail("MissingRequiredSignature", "payer_signer", L)
        ELSE [result |-> out.result, failed_at |-> "none",
              calls |-> <<Call(ata_instruction, out)>>, ledger |-> out.ledger]

\* burn_user_tokens without the check of the holder account against the mint
\* and the owner
burn_user_tokens_no_linkage(L, accounts, amount_ui, overflow_checks) ==
    IF Len(accounts) < 3
    THEN Fail("NotEnoughAccountKeys", "next_account_info", L)
    ELSE
    LET mint_account  == accounts[1]
        owner_account == accounts[2]
        ata_token_acc == accounts[3]
        token_account == SplAccount_unpack(L[ata_token_acc.key].data)
        mint          == SplMint_unpack(L[mint_account.key].data)
        decimals      == mint.value.decimals
        power         == u64_pow10(decimals, overflow_checks)
        amount_base   == u64_checked_mul(amount_ui, power.value)
        burn_ix       == burn_checked(spl_token_id, ata_token_acc.key, mint_account.key,
                                      owner_account.key, amount_base.value, decimals)
        out           == invoke(L, accounts, burn_ix,
                                <<ata_token_acc, mint_account, owner_account>>)
    IN  IF ~owner_account.is_signer
        THEN Fail("MissingRequiredSignature", "owner_signer", L)
        ELSE IF ~token_account.ok
        THEN Fail(token_account.err, "unpack_token_account", L)
        ELSE IF ~mint.ok
        THEN Fail(mint.err, "unpack_mint", L)
        ELSE IF power.panic
        THEN Fail("Panic", "pow_overflow", L)
        ELSE IF ~amount_base.some
        THEN Fail("InvalidArgument", "checked_mul", L)
        ELSE [result |-> out.result, failed_at |-> "none",
              calls |-> <<Call(burn_ix, out)>>, ledger |-> out.ledger]

\* burn_user_tokens without the check of the owner's signature
burn_user_tokens_unsigned(L, accounts, amount_ui, overflow_checks) ==
    IF Len(accounts) < 3
    THEN Fail("NotEnoughAccountKeys", "next_account_info", L)
    ELSE
    LET mint_account  == accounts[1]
        owner_account == accounts[2]
        ata_token_acc == accounts[3]
        token_account == SplAccount_unpack(L[ata_token_acc.key].data)
        mint          == SplMint_unpack(L[mint_account.key].data)
        decimals      == mint.value.decimals
        power         == u64_pow10(decimals, overflow_checks)
        amount_base   == u64_checked_mul(amount_ui, power.value)
        burn_ix       == burn_checked(spl_token_id, ata_token_acc.key, mint_account.key,
                                      owner_account.key, amount_base.value, decimals)
        out           == invoke(L, accounts, burn_ix,
                                <<ata_token_acc, mint_account, owner_account>>)
    IN  IF ~token_account.ok
        THEN Fail(token_account.err, "unpack_token_account", L)
        ELSE IF token_account.value.mint # mint_account.key
                \/ token_account.value.owner # owner_account.key
        THEN Fail("InvalidAccountData", "linkage", L)
        ELSE IF ~mint.ok
        THEN Fail(mint.err, "unpack_mint", L)
        ELSE IF power.panic
        THEN Fail("Panic", "pow_overflow", L)
        ELSE IF ~amount_base.some
        THEN Fail("InvalidArgument", "checked_mul", L)
        ELSE [result |-> out.result, failed_at |-> "none",
              calls |-> <<Call(burn_ix, out)>>, ledger |-> out.ledger]

burn_user_tokens(L, accounts, amount_ui, overflow_checks) ==
    IF Len(accounts) < 3
    THEN Fail("NotEnoughAccountKeys", "next_account_info", L)
    ELSE
    LET mint_account  == accounts[1]
        owner_account == accounts[2]
        ata_token_acc == accounts[3]
        token_account == SplAccount_unpack(L[ata_token_acc.key].data)
        mint          == SplMint_unpack(L[mint_account.key].data)
        decimals      == mint.value.decimals
        power         == u64_pow10(decimals, overflow_checks)
        amount_base   == u64_checked_mul(amount_ui, power.value)
        burn_ix       == burn_checked(spl_token_id, ata_token_acc.key, mint_account.key,
                                      owner_account.key, amount_base.value, decimals)
        out           == invoke(L, accounts, burn_ix,
                                <<ata_token_acc, mint_account, owner_account>>)
    IN  IF ~owner_account.is_signer
        THEN Fail("MissingRequiredSignature", "owner_signer", L)
        ELSE IF ~token_account.ok
        THEN Fail(token_account.err, "unpack_token_account", L)
        ELSE IF token_account.value.mint # mint_account.key
                \/ token_account.value.owner # owner_account.key
        THEN Fail("InvalidAccountData", "linkage", L)
        ELSE IF ~mint.ok
        THEN Fail(mint.err, "unpack_mint", L)
        ELSE IF power.panic
        THEN Fail("Panic", "pow_overflow", L)
        ELSE IF ~amount_base.some
        THEN Fail("InvalidArgument", "checked_mul", L)
        ELSE [result |-> out.result, failed_at |-> "none",
              calls |-> <<Call(burn_ix, out)>>, ledger |-> out.ledger]

(***************************************************************************)
(* The dispatcher and the host's execution envelope.                       *)
(***************************************************************************)
\* the decoded instruction (enum Ix)
Ix_CreateAndInitMint(mint_authority, decimals, bump) ==
    [op |-> "CreateAndInitMint", mint_authority |-> mint_authority,
     decimals |-> decimals, bump |-> bump]
Ix_CreateAtaFor == [op |-> "CreateAtaFor"]
Ix_BurnUserTokens(amount_ui) == [op |-> "BurnUserTokens", amount_ui |-> amount_ui]
Ix_None == [op |-> "None"]
\* what the frame shows of a payload that does not decode
Ix_Undecoded == [op |-> "Undecoded"]

\* the bytes of a Pubkey
Pubkey_LEN == 32

RECURSIVE ToNat(_)
\* the number that the little-endian bytes b write
ToNat(b) == IF b = <<>> THEN 0 ELSE Head(b) + 256 * ToNat(Tail(b))

\* Ix::pack: the borsh encoding, a one-byte variant index and the fields
Ix_pack(instr) ==
    IF instr.op = "CreateAndInitMint"
    THEN <<0>> \o FromNat(instr.mint_authority, Pubkey_LEN)
              \o <<instr.decimals, instr.bump>>
    ELSE IF instr.op = "CreateAtaFor"
    THEN <<1>>
    ELSE <<2>> \o instr.amount_ui

\* a borsh read of n bytes from the front of buf
borsh_read(buf, n) ==
    IF Len(buf) < n THEN [ok |-> FALSE]
    ELSE [ok |-> TRUE, bytes |-> SubSeq(buf, 1, n), rest |-> SubSeq(buf, n + 1, Len(buf))]

\* <Ix as BorshDeserialize>::deserialize: the variant index, then the fields
\* of the variant; what is left of the buffer is returned with the value
Ix_deserialize(buf) ==
    LET tag == borsh_read(buf, 1)
    IN  IF ~tag.ok THEN [ok |-> FALSE]
        ELSE IF tag.bytes[1] = 0
        THEN LET mint_authority == borsh_read(tag.rest, Pubkey_LEN)
                 decimals       == borsh_read(mint_authority.rest, 1)
                 bump           == borsh_read(decimals.rest, 1)
             IN  IF ~mint_authority.ok THEN [ok |-> FALSE]
                 ELSE IF ~decimals.ok THEN [ok |-> FALSE]
                 ELSE IF ~bump.ok THEN [ok |-> FALSE]
                 ELSE [ok |-> TRUE,
                       value |-> Ix_CreateAndInitMint(ToNat(mint_authority.bytes),
                                                      decimals.bytes[1], bump.bytes[1]),
                       rest |-> bump.rest]
        ELSE IF tag.bytes[1] = 1
        THEN [ok |-> TRUE, value |-> Ix_CreateAtaFor, rest |-> tag.rest]
        ELSE IF tag.bytes[1] = 2
        THEN LET amount_ui == borsh_read(tag.rest, U64_BYTES)
             IN  IF ~amount_ui.ok THEN [ok |-> FALSE]
                 ELSE [ok |-> TRUE, value |-> Ix_BurnUserTokens(amount_ui.bytes),
                       rest |-> amount_ui.rest]
        ELSE [ok |-> FALSE]

\* a decoding that reads the instruction from the front of the payload and
\* leaves what follows it unread
Ix_deserialize_prefix(data) ==
    LET decoded == Ix_deserialize(data)
    IN  IF ~decoded.ok THEN [ok |-> FALSE]
        ELSE [ok |-> TRUE, value |-> decoded.value]

\* Ix::try_from_slice: deserialize, and an error when bytes are left unread
Ix_try_from_slice(data) ==
    LET decoded == Ix_deserialize(data)
    IN  IF ~decoded.ok THEN [ok |-> FALSE]
        ELSE IF decoded.rest # <<>> THEN [ok |-> FALSE]
        ELSE [ok |-> TRUE, value |-> decoded.value]

process_instruction(L, accts, instr, overflow_checks) ==
    IF instr.op = "CreateAndInitMint"
    THEN create_and_init_mint(L, accts, instr.mint_authority,
                              <<"MINT", instr.bump>>, instr.decimals)
    ELSE IF instr.op = "CreateAtaFor"
    THEN create_ata_for(L, accts)
    ELSE burn_user_tokens(L, accts, instr.amount_ui, overflow_checks)

\* the program's entrypoint: the payload is decoded first, and only a decoded
\* instruction reaches a handler
entrypoint(L, accts, data, overflow_checks) ==
    LET decoded == Ix_try_from_slice(data)
    IN  IF ~decoded.ok THEN Fail("InvalidInstructionData", "decode", L)
        ELSE process_instruction(L, accts, decoded.value, overflow_checks)

\* a host that keeps what a call did to the ledger whatever the call returns
CommitAnyResult(L, out) == out.ledger

\* the host keeps what a call did to the ledger only when the call succeeds
Commit(L, out) == IF out.result = "Ok" THEN out.ledger ELSE L

(***************************************************************************)
(* Bounds and the inputs of the model.                                     *)
(***************************************************************************)
\* how many times the mint authority mints to a holder account from outside
MaxMintTo == 1
\* the base units one such call mints
MINT_TO_BASE == 5000000

\* the (mint authority, decimals) pairs a CreateAndInitMint payload carries
MintConfigs == {<<PAYER, 6>>, <<OWNER, 20>>, <<OWNER, 64>>}
\* the amount_ui values a BurnUserTokens payload carries
AmountsUi == {U64(1), U64(2), U64_MAX}

Program(key) == AccountInfo(key, FALSE, FALSE)

\* every list of handles of full, and every shorter prefix of the list first
WithPrefixes(full, first) ==
    full \cup {SubSeq(first, 1, n) : n \in 0..(Len(first) - 1)}

\* the accounts a caller may give as the handle named token_program, which
\* create_and_init_mint takes as it comes
TokenProgramHandles == {spl_token_id, rent_sysvar_id}

CreateAndInitMintAccounts ==
    WithPrefixes(
        {<<AccountInfo(PAYER, s, TRUE), AccountInfo(m, FALSE, w),
           Program(system_program_id), Program(t)>> :
            s \in BOOLEAN, m \in MintAddrs, w \in BOOLEAN, t \in TokenProgramHandles},
        <<AccountInfo(PAYER, TRUE, TRUE), AccountInfo(find_mint_pda.key, FALSE, TRUE),
          Program(system_program_id), Program(spl_token_id)>>)

\* the handles a caller may add after the six the handler reads
AtaExtras == {<<>>, <<Program(rent_sysvar_id), Program(ata_id)>>}

\* the owner's handle: when the owner is the payer, the one account has the
\* flags of the payer in every handle the host makes for it
OwnerOf(o, payer) == IF o = payer.key THEN payer ELSE AccountInfo(o, FALSE, FALSE)

CreateAtaForAccounts ==
    WithPrefixes(
        {<<AccountInfo(PAYER, s, TRUE), OwnerOf(o, AccountInfo(PAYER, s, TRUE)),
           AccountInfo(a, FALSE, w), AccountInfo(m, FALSE, FALSE),
           Program(spl_token_id), Program(system_program_id)>> \o extra :
            s \in BOOLEAN, o \in Wallets, a \in AtaAddrs, w \in BOOLEAN,
            m \in MintAddrs, extra \in AtaExtras},
        <<AccountInfo(PAYER, TRUE, TRUE), AccountInfo(OWNER, FALSE, FALSE),
          AccountInfo(get_associated_token_address(OWNER, find_mint_pda.key, spl_token_id),
                      FALSE, TRUE),
          AccountInfo(find_mint_pda.key, FALSE, FALSE),
          Program(spl_token_id), Program(system_program_id)>>)

BurnUserTokensAccounts ==
    WithPrefixes(
        {<<AccountInfo(m, FALSE, TRUE), AccountInfo(o, s, FALSE),
           AccountInfo(a, FALSE, w)>> \o extra :
            m \in MintAddrs, o \in Wallets, s \in BOOLEAN, a \in AtaAddrs,
            w \in BOOLEAN, extra \in {<<>>, <<Program(spl_token_id)>>}},
        <<AccountInfo(find_mint_pda.key, FALSE, TRUE), AccountInfo(OWNER, TRUE, FALSE),
          AccountInfo(get_associated_token_address(OWNER, find_mint_pda.key, spl_token_id),
                      FALSE, TRUE)>>)

\* payloads that are not the encoding of an instruction: empty, an unknown
\* variant index, a byte too few, a byte too many
MalformedPayloads ==
    LET create == Ix_pack(Ix_CreateAndInitMint(PAYER, 6, find_mint_pda.bump))
        burn   == Ix_pack(Ix_BurnUserTokens(U64(1)))
    IN  {<<>>, <<3>>, <<255>>,
         SubSeq(create, 1, Len(create) - 1), create \o <<0>>,
         Ix_pack(Ix_CreateAtaFor) \o <<0>>,
         SubSeq(burn, 1, Len(burn) - 1), burn \o <<0>>}

\* the handles of the calls with such a payload: none, or the handles of a
\* call of each instruction as a client makes it
MalformedCallAccounts ==
    {<<>>,
     <<AccountInfo(PAYER, TRUE, TRUE), AccountInfo(find_mint_pda.key, FALSE, TRUE),
       Program(system_program_id), Program(spl_token_id)>>,
     <<AccountInfo(PAYER, TRUE, TRUE), AccountInfo(PAYER, TRUE, TRUE),
       AccountInfo(get_associated_token_address(PAYER, find_mint_pda.key, spl_token_id),
                   FALSE, TRUE),
       AccountInfo(find_mint_pda.key, FALSE, FALSE),
       Program(spl_token_id), Program(system_program_id),
       Program(rent_sysvar_id), Program(ata_id)>>,
     <<AccountInfo(find_mint_pda.key, FALSE, TRUE), AccountInfo(PAYER, TRUE, FALSE),
       AccountInfo(get_associated_token_address(PAYER, find_mint_pda.key, spl_token_id),
                   FALSE, TRUE),
       Program(spl_token_id)>>}

(***************************************************************************)
(* State: the ledger, and the frame of the call being returned (the        *)
(* decoded instruction, its handles, its result and the calls it issued).  *)
(***************************************************************************)
VARIABLES ledger, data, ix, accounts, result, failed_at, calls, mint_to_calls

vars == <<ledger, data, ix, accounts, result, failed_at, calls, mint_to_calls>>

Init ==
    /\ ledger = [a \in Addrs |->
                    IF a = PAYER THEN SystemAccount(PAYER_LAMPORTS) ELSE SystemAccount(0)]
    /\ data = <<>>
    /\ ix = Ix_None
    /\ accounts = <<>>
    /\ result = "Idle"
    /\ failed_at = "none"
    /\ calls = <<>>
    /\ mint_to_calls = 0

Idle == ix.op = "None"

\* the frame a call leaves: the host runs process_instruction from entry to
\* result and keeps the ledger of a successful call
Returned(instr, accts, out) ==
    /\ ix' = instr
    /\ accounts' = accts
    /\ result' = out.result
    /\ failed_at' = out.failed_at
    /\ calls' = out.calls
    /\ ledger' = Commit(ledger, out)
    /\ UNCHANGED mint_to_calls

\* the host calls the entrypoint with a payload and a list of handles
Dispatched(payload, accts, overflow_checks) ==
    LET decoded == Ix_try_from_slice(payload)
    IN  /\ data' = payload
        /\ Returned(IF decoded.ok THEN decoded.value ELSE Ix_Undecoded, accts,
                    entrypoint(ledger, accts, payload, overflow_checks))

CreateAndInitMint ==
    /\ Idle
    /\ \E cfg \in MintConfigs, bump \in Bumps, accts \in CreateAndInitMintAccounts :
        LET instr == Ix_CreateAndInitMint(cfg[1], cfg[2], bump)
        IN  Dispatched(Ix_pack(instr), accts, FALSE)

CreateAtaFor ==
    /\ Idle
    /\ \E accts \in CreateAtaForAccounts :
        Dispatched(Ix_pack(Ix_CreateAtaFor), accts, FALSE)

BurnUserTokens ==
    /\ Idle
    /\ \E amount_ui \in AmountsUi, accts \in BurnUserTokensAccounts,
          overflow_checks \in BOOLEAN :
        LET instr == Ix_BurnUserTokens(amount_ui)
        IN  Dispatched(Ix_pack(instr), accts, overflow_checks)

\* the host hands the result to the caller; nothing of the call is kept
Return ==
    /\ ~Idle
    /\ data' = <<>>
    /\ ix' = Ix_None
    /\ accounts' = <<>>
    /\ result' = "Idle"
    /\ failed_at' = "none"
    /\ calls' = <<>>
    /\ UNCHANGED <<ledger, mint_to_calls>>

\* the mint authority mints to a holder account, outside this program
\* (spl_token mint_to_checked, as the test does before it burns)
MintTo ==
    /\ Idle
    /\ mint_to_calls < MaxMintTo
    /\ \E a \in AtaAddrs :
        LET acc == SplAccount_unpack(ledger[a].data)
            m   == acc.value.mint
            sum == u64_checked_add(acc.value.amount, U64(MINT_TO_BASE))
            sup == u64_checked_add(ledger[m].data.supply, U64(MINT_TO_BASE))
        IN  /\ ledger[a].owner = spl_token_id
            /\ acc.ok
            /\ sum.some /\ sup.some
            /\ ledger' = [ledger EXCEPT ![a].data.amount = sum.value,
                                        ![m].data.supply = sup.value]
    /\ mint_to_calls' = mint_to_calls + 1
    /\ UNCHANGED <<data, ix, accounts, result, failed_at, calls>>

\* a call whose payload is not the encoding of an instruction
InvalidInstruction ==
    /\ Idle
    /\ \E payload \in MalformedPayloads, accts \in MalformedCallAccounts :
        Dispatched(payload, accts, FALSE)

Next ==
    \/ CreateAndInitMint
    \/ CreateAtaFor
    \/ BurnUserTokens
    \/ InvalidInstruction
    \/ MintTo
    \/ Return

Spec == Init /\ [][Next]_vars

(***************************************************************************)
(* The claims.                                                             *)
(***************************************************************************)
\* a call has just returned: the step from the idle host to the call's frame
Called == Idle /\ ~Idle'

\* the guards of the handler of instr, as conditions on what it is given:
\* some guard of the handler does not hold of the ledger L and the handles
SomeGuardFails(L, instr, accts) ==
    IF instr.op = "Undecoded"
    THEN TRUE
    ELSE IF instr.op = "CreateAndInitMint"
    THEN \/ Len(accts) < 4
         \/ ~accts[1].is_signer
         \/ ~accts[2].is_writable
         \/ ~create_program_address(<<"MINT", instr.bump>>).ok
         \/ accts[2].key # create_program_address(<<"MINT", instr.bump>>).key
    ELSE IF instr.op = "CreateAtaFor"
    THEN \/ Len(accts) < 6
         \/ accts[3].key # get_associated_token_address(accts[2].key, accts[4].key,
                                                        spl_token_id)
         \/ ~accts[1].is_signer
    ELSE \/ Len(accts) < 3
         \/ ~accts[2].is_signer
         \/ ~SplAccount_unpack(L[accts[3].key].data).ok
         \/ L[accts[3].key].data.mint # accts[1].key
         \/ L[accts[3].key].data.owner # accts[2].key
         \/ ~SplMint_unpack(L[accts[1].key].data).ok
         \/ ~u64_checked_mul(instr.amount_ui,
                             u64_pow10_wrapping(L[accts[1].key].data.decimals)).some

\* C1: in every handler the guards come before the first external call: a call
\* of the program in which some guard does not hold, or which reports a guard's
\* failure, has issued no external call at all (and has failed).
C1_GuardsBeforeCalls ==
    [][Called =>
         ((failed_at' # "none" \/ SomeGuardFails(ledger, ix', accounts'))
             => calls' = <<>> /\ result' # "Ok")]_vars

\* C1 witness: a burn that passed every guard but the last one (the overflow
\* check) and issued nothing
C1_Witness ==
    /\ ix.op = "BurnUserTokens"
    /\ failed_at = "checked_mul"
    /\ result = "InvalidArgument"
    /\ calls = <<>>

\* the holder accounts whose balance the step has lowered
Decreased ==
    {a \in AtaAddrs :
        /\ SplAccount_unpack(ledger[a].data).ok
        /\ SplAccount_unpack(ledger'[a].data).ok
        /\ LessBytes(ledger'[a].data.amount, ledger[a].data.amount)}

\* C2: whatever calls came before, the balance of a holder account goes down
\* only in a successful BurnUserTokens call whose owner handle is the address
\* recorded as the account's owner, is signer-flagged, and whose mint handle is
\* the address recorded as the account's mint.
C2_BurnOnlyByOwnerOfMint ==
    [][\A a \in Decreased :
          /\ ix'.op = "BurnUserTokens"
          /\ result' = "Ok"
          /\ accounts'[3].key = a
          /\ accounts'[2].key = ledger[a].data.owner
          /\ accounts'[2].is_signer
          /\ accounts'[1].key = ledger[a].data.mint]_vars

\* C2 witness: a burn has lowered the balance of the owner's holder account,
\* and the payer's holder account of the same mint exists beside it
C2_Witness ==
    /\ ix.op = "BurnUserTokens"
    /\ result = "Ok"
    /\ ~IsZero(calls[1].ix.amount)
    /\ ledger[accounts[3].key].data.owner = OWNER
    /\ ledger[accounts[3].key].data.amount = U64(MINT_TO_BASE - 1000000)
    /\ \A a \in AtaAddrs : SplAccount_unpack(ledger[a].data).ok

\* the mathematical product amount_ui * 10^decimals when it is at most
\* 2^64 - 1, and None when it exceeds that
UiToBase(amount_ui, decimals) ==
    LET pow == u64_pow10_checked(decimals)
    IN  IF IsZero(amount_ui) THEN [some |-> TRUE, value |-> U64(0)]
        ELSE IF ~pow.some THEN [some |-> FALSE]
        ELSE u64_checked_mul(amount_ui, pow.value)

\* the call of the frame is a BurnUserTokens that got as far as the conversion
\* of amount_ui to base units
BurnReachedConversion ==
    /\ ix.op = "BurnUserTokens"
    /\ failed_at \in {"pow_overflow", "checked_mul", "none"}

\* C3: a BurnUserTokens whose mathematical product amount_ui * 10^decimals
\* exceeds 2^64 - 1 fails with the arithmetic-overflow failure
\* (InvalidArgument, from the checked multiplication) and issues no burn call.
\* Does not hold: 10u64.pow(decimals) is computed unchecked before the checked
\* multiplication.
C3_OverflowIsRejected ==
    (/\ BurnReachedConversion
     /\ ~UiToBase(ix.amount_ui, ledger[accounts[1].key].data.decimals).some)
        => /\ result = "InvalidArgument"
           /\ failed_at = "checked_mul"
           /\ calls = <<>>

\* C4: a successful BurnUserTokens(amount_ui) on a holder account of a mint
\* with recorded decimals d lowers the balance of the account by exactly
\* amount_ui * 10^d base units.  Does not hold: see C3.
C4_BurnsExactlyUiTimesPow10 ==
    [][(Called /\ ix'.op = "BurnUserTokens" /\ result' = "Ok") =>
          LET ata    == accounts'[3].key
              burned == UiToBase(ix'.amount_ui, ledger[accounts'[1].key].data.decimals)
          IN  /\ burned.some
              /\ u64_checked_add(ledger'[ata].data.amount, burned.value)
                     = [some |-> TRUE, value |-> ledger[ata].data.amount]]_vars

\* the mint handle of a CreateAndInitMint frame does not carry the address
\* derived from "MINT" and the bump of the payload (no address is derived when
\* the derivation fails)
ForgedMintAddress ==
    LET expected == create_program_address(<<"MINT", ix.bump>>)
    IN  /\ ix.op = "CreateAndInitMint"
        /\ Len(accounts) >= 2
        /\ ~expected.ok \/ accounts[2].key # expected.key

\* C5: a CreateAndInitMint whose mint handle does not carry the address derived
\* from "MINT" and the payload's bump fails and issues no external call,
\* whatever the bump; the failure is InvalidSeeds whenever the guards that come
\* before the address guard (handle count, payer signature, writable mint
\* handle) pass.
C5_ForgedMintAddressFails ==
    ForgedMintAddress =>
        /\ result # "Ok"
        /\ calls = <<>>
        /\ (Len(accounts) >= 4 /\ accounts[1].is_signer /\ accounts[2].is_writable)
              => result = "InvalidSeeds" /\ failed_at = "mint_address"

\* C5 witness: the canonical mint address is given with another bump, one that
\* derives an address too, and the call is refused for the address
C5_Witness ==
    /\ ForgedMintAddress
    /\ accounts[2].key = find_mint_pda.key
    /\ create_program_address(<<"MINT", ix.bump>>).ok
    /\ result = "InvalidSeeds"
    /\ calls = <<>>

\* the holder account that the third handle of a BurnUserTokens frame names,
\* as it decodes
BurnHolder == SplAccount_unpack(ledger[accounts[3].key].data)

\* C6: a BurnUserTokens whose owner handle is not signer-flagged fails, issues
\* no burn call and leaves the ledger (every holder balance, every mint record)
\* as it was; the failure is MissingRequiredSignature whenever the handler has
\* the three handles it reads.
C6_UnsignedBurnFails ==
    [][(/\ Called
        /\ ix'.op = "BurnUserTokens"
        /\ Len(accounts') >= 2
        /\ ~accounts'[2].is_signer)
          => /\ result' # "Ok"
             /\ calls' = <<>>
             /\ ledger' = ledger
             /\ Len(accounts') >= 3
                  => result' = "MissingRequiredSignature" /\ failed_at' = "owner_signer"]_vars

\* C6 witness: the burn of the owner's own, funded holder account of the
\* supplied mint, refused only because the owner has not signed
C6_Witness ==
    /\ ix.op = "BurnUserTokens"
    /\ Len(accounts) = 4
    /\ ~accounts[2].is_signer
    /\ accounts[3].is_writable
    /\ BurnHolder.ok
    /\ BurnHolder.value.mint = accounts[1].key
    /\ BurnHolder.value.owner = accounts[2].key
    /\ BurnHolder.value.amount = U64(MINT_TO_BASE)
    /\ SplMint_unpack(ledger[accounts[1].key].data).ok
    /\ ledger[accounts[1].key].data.decimals = 6
    /\ ix.amount_ui = U64(2)
    /\ result = "MissingRequiredSignature"
    /\ calls = <<>>

\* the holder account of a BurnUserTokens frame decodes, and its recorded mint
\* is not the supplied mint or its recorded owner is not the supplied owner
LinkageMismatch ==
    /\ ix.op = "BurnUserTokens"
    /\ Len(accounts) >= 3
    /\ BurnHolder.ok
    /\ \/ BurnHolder.value.mint # accounts[1].key
       \/ BurnHolder.value.owner # accounts[2].key

\* C7: a BurnUserTokens on a holder account whose recorded mint differs from
\* the supplied mint, or whose recorded owner differs from the supplied owner,
\* fails and issues no burn call; the failure is InvalidAccountData whenever
\* the guard that comes before (the owner's signature) passes.
C7_LinkageMismatchFails ==
    LinkageMismatch =>
        /\ result # "Ok"
        /\ calls = <<>>
        /\ accounts[2].is_signer
              => result = "InvalidAccountData" /\ failed_at = "linkage"

\* C7 witness: the signing owner's own funded holder account, with a mint
\* handle that is not the mint the account records
C7_Witness ==
    /\ LinkageMismatch
    /\ accounts[2].is_signer
    /\ BurnHolder.value.owner = accounts[2].key
    /\ BurnHolder.value.mint # accounts[1].key
    /\ BurnHolder.value.amount = U64(MINT_TO_BASE)
    /\ result = "InvalidAccountData"
    /\ calls = <<>>

\* the holder account at address a of ledger L exists and is configured for
\* the mint and the owner
Configured(L, a, mint, owner) ==
    /\ L[a].owner = spl_token_id
    /\ SplAccount_unpack(L[a].data).ok
    /\ L[a].data.mint = mint
    /\ L[a].data.owner = owner

\* a CreateAtaFor call as a client makes it: the six handles, the holder
\* account's handle at the derived address and writable, the payer signing,
\* and the associated-token-account program among the handles
WellFormedCreateAtaFor(accts) ==
    /\ Len(accts) >= 6
    /\ accts[1].is_signer /\ accts[1].is_writable
    /\ accts[3].key = get_associated_token_address(accts[2].key, accts[4].key, spl_token_id)
    /\ accts[3].is_writable
    /\ accts[5].key = spl_token_id
    /\ accts[6].key = system_program_id
    /\ ata_id \in Keys(accts)

\* C8: a successful CreateAtaFor leaves the holder account configured for the
\* mint and the owner, with balance 0 when the call has created it and with the
\* whole ledger unchanged when it existed; the same call made again succeeds
\* and changes nothing; and a well-formed CreateAtaFor on a holder account that
\* exists, correctly configured, succeeds and changes nothing.
C8_CreateAtaForIdempotent ==
    [][(Called /\ ix'.op = "CreateAtaFor" /\ Len(accounts') >= 6) =>
          LET ata     == accounts'[3].key
              owner   == accounts'[2].key
              mint    == accounts'[4].key
              existed == Configured(ledger, ata, mint, owner)
              again   == process_instruction(ledger', accounts', ix', FALSE)
          IN  /\ result' = "Ok" =>
                    /\ Configured(ledger', ata, mint, owner)
                    /\ IF existed THEN ledger' = ledger
                       ELSE ledger'[ata].data.amount = U64(0)
                    /\ again.result = "Ok"
                    /\ Commit(ledger', again) = ledger'
              /\ (existed /\ WellFormedCreateAtaFor(accounts')) =>
                    /\ result' = "Ok"
                    /\ ledger' = ledger]_vars

\* C8 witness: a CreateAtaFor has succeeded on a holder account that existed
\* and holds a balance
C8_Witness ==
    /\ ix.op = "CreateAtaFor"
    /\ result = "Ok"
    /\ Len(calls) = 1
    /\ WellFormedCreateAtaFor(accounts)
    /\ Configured(ledger, accounts[3].key, accounts[4].key, accounts[2].key)
    /\ ledger[accounts[3].key].data.amount = U64(MINT_TO_BASE)

\* C9: after a successful CreateAndInitMint{mint_authority, decimals, bump} the
\* address derived from "MINT" and bump holds an account owned by the token
\* program that decodes as a mint record with exactly that authority and those
\* decimals.
C9_MintCreatedAsAsked ==
    (ix.op = "CreateAndInitMint" /\ result = "Ok") =>
        LET expected == create_program_address(<<"MINT", ix.bump>>)
        IN  /\ expected.ok
            /\ accounts[2].key = expected.key
            /\ ledger[expected.key].owner = spl_token_id
            /\ SplMint_unpack(ledger[expected.key].data).ok
            /\ ledger[expected.key].data.mint_authority = ix.mint_authority
            /\ ledger[expected.key].data.decimals = ix.decimals

\* C9 witness: a mint has been created whose authority is not the payer
C9_Witness ==
    /\ ix.op = "CreateAndInitMint"
    /\ result = "Ok"
    /\ Len(calls) = 2
    /\ ix.mint_authority = OWNER
    /\ accounts[1].key = PAYER
    /\ ledger[accounts[2].key].data = MintData(OWNER, ix.decimals, U64(0))

\* the number of handles the documentation of each instruction lists
DocumentedHandles(op) ==
    IF op = "CreateAndInitMint" THEN 4
    ELSE IF op = "CreateAtaFor" THEN 6
    ELSE 4

\* C10: a handler given fewer handles than its documented list (4 for
\* CreateAndInitMint, 6 for CreateAtaFor, 4 for BurnUserTokens) fails without
\* issuing an external call.  Does not hold: burn_user_tokens takes three
\* handles only and goes on to the burn call when given three.
C10_FewerHandlesFail ==
    (~Idle /\ Len(accounts) < DocumentedHandles(ix.op)) =>
        /\ result # "Ok"
        /\ calls = <<>>

\* the payload is the encoding of an instruction: a known variant index with
\* exactly the bytes of the variant's fields after it
WellFormedPayload(payload) ==
    /\ Len(payload) >= 1
    /\ \/ payload[1] = 0 /\ Len(payload) = 1 + Pubkey_LEN + 1 + 1
       \/ payload[1] = 1 /\ Len(payload) = 1
       \/ payload[1] = 2 /\ Len(payload) = 1 + U64_BYTES

\* C11: a payload with an unknown variant index, with bytes missing or with
\* bytes left over is rejected with InvalidInstructionData before the handles
\* are looked at: no handler runs, no external call is issued, the ledger is
\* as it was, whatever handles the call carries.
C11_MalformedPayloadRejected ==
    [][(Called /\ ~WellFormedPayload(data')) =>
          /\ result' = "InvalidInstructionData"
          /\ failed_at' = "decode"
          /\ ix' = Ix_Undecoded
          /\ calls' = <<>>
          /\ ledger' = ledger]_vars

\* C11 witness: a burn payload with one byte after it, sent with the handles
\* of a burn that would succeed, has been rejected
C11_Witness ==
    /\ data = Ix_pack(Ix_BurnUserTokens(U64(1))) \o <<0>>
    /\ Len(accounts) = 4
    /\ accounts[2].is_signer
    /\ Configured(ledger, accounts[3].key, accounts[1].key, accounts[2].key)
    /\ ledger[accounts[3].key].data.amount = U64(MINT_TO_BASE)
    /\ ledger[accounts[1].key].data.decimals = 6
    /\ result = "InvalidInstructionData"
    /\ calls = <<>>

\* the external calls of the frame that have returned a failure
FailedCalls == {i \in 1..Len(calls) : calls[i].result # "Ok"}

\* C12: when an external call returns a failure it is the last call of the
\* handler and its failure is the handler's result, unchanged; a handler whose
\* calls have all succeeded returns Ok; and CreateAndInitMint issues
\* create-account first and initialize-mint only after create-account has
\* returned Ok.
C12_FailurePropagatedAndLast ==
    /\ \A i \in FailedCalls : i = Len(calls) /\ result = calls[i].result
    /\ (calls # <<>> /\ FailedCalls = {}) => result = "Ok"
    /\ ix.op = "CreateAndInitMint" =>
          /\ Len(calls) <= 2
          /\ Len(calls) >= 1 => calls[1].ix.name = "CreateAccount"
          /\ Len(calls) = 2 => /\ calls[1].result = "Ok"
                               /\ calls[2].ix.name = "InitializeMint2"
    /\ ix.op \in {"CreateAtaFor", "BurnUserTokens"} => Len(calls) <= 1

\* C12 witness: create-account has succeeded and initialize-mint has been
\* refused; the refusal is the result of the call
C12_Witness ==
    /\ ix.op = "CreateAndInitMint"
    /\ Len(calls) = 2
    /\ calls[1].result = "Ok"
    /\ calls[2].result # "Ok"
    /\ result = calls[2].result

MutatedHandle == IF ix.op = "CreateAndInitMint" THEN accounts[2] ELSE accounts[3]

\* C14: a handler that has got as far as an external call has before that
\* validated the handle of the account to be written, so the handle is
\* writable and, for the holder account of a burn, the account is owned by the
\* token program.  Does not hold: create_ata_for and burn_user_tokens never
\* look at is_writable of the holder account's handle (and no handler looks at
\* the owner of an account).
C14_MutatedHandleValidated ==
    calls # <<>> =>
        /\ MutatedHandle.is_writable
        /\ ix.op = "BurnUserTokens" => ledger[MutatedHandle.key].owner = spl_token_id

\* the frame reports the failure err of the guard named guard
Reports(err, guard) == result = err /\ failed_at = guard

\* the holder-account handle of a CreateAtaFor frame does not carry the address
\* derived from the owner and the mint
WrongAtaAddress ==
    accounts[3].key # get_associated_token_address(accounts[2].key, accounts[4].key,
                                                   spl_token_id)

\* C15: of the guards that a call violates, the failure reported is that of
\* the earliest in the handler's order.  CreateAndInitMint: payer signer, mint
\* writable, mint address.  CreateAtaFor: holder-account address, payer signer.
\* BurnUserTokens: owner signer, linkage, overflow (an overflow failure is
\* reported only when signer and linkage hold).
C15_EarliestGuardReported ==
    /\ (ix.op = "CreateAndInitMint" /\ Len(accounts) >= 4) =>
          IF ~accounts[1].is_signer
          THEN Reports("MissingRequiredSignature", "payer_signer")
          ELSE IF ~accounts[2].is_writable
          THEN Reports("InvalidAccountData", "mint_writable")
          ELSE ForgedMintAddress => Reports("InvalidSeeds", "mint_address")
    /\ (ix.op = "CreateAtaFor" /\ Len(accounts) >= 6) =>
          IF WrongAtaAddress
          THEN Reports("InvalidArgument", "ata_address")
          ELSE ~accounts[1].is_signer => Reports("MissingRequiredSignature", "payer_signer")
    /\ (ix.op = "BurnUserTokens" /\ Len(accounts) >= 3) =>
          IF ~accounts[2].is_signer
          THEN Reports("MissingRequiredSignature", "owner_signer")
          ELSE IF LinkageMismatch
          THEN Reports("InvalidAccountData", "linkage")
          ELSE failed_at \in {"pow_overflow", "checked_mul"} =>
                  /\ BurnHolder.ok
                  /\ ~UiToBase(ix.amount_ui, ledger[accounts[1].key].data.decimals).some

\* C15 witness: a CreateAtaFor that violates both of its guards reports the
\* address failure
C15_Witness ==
    /\ ix.op = "CreateAtaFor"
    /\ Len(accounts) >= 6
    /\ WrongAtaAddress
    /\ ~accounts[1].is_signer
    /\ Reports("InvalidArgument", "ata_address")

\* the derived addresses that hold a mint record in ledger L
MintsOf(L) == {m \in MintAddrs : SplMint_unpack(L[m].data).ok}

\* C16: a mint record at a derived address keeps its authority and decimals in
\* every step, and a CreateAndInitMint whose bump derives the address of an
\* existing mint record fails, whatever authority and decimals it carries: when
\* its guards pass, by the refusal of create-account for an account in use.
C16_MintCreatedOnce ==
    [][\A m \in MintsOf(ledger) :
          /\ m \in MintsOf(ledger')
          /\ ledger'[m].data.mint_authority = ledger[m].data.mint_authority
          /\ ledger'[m].data.decimals = ledger[m].data.decimals
          /\ (/\ Called
              /\ ix'.op = "CreateAndInitMint"
              /\ create_program_address(<<"MINT", ix'.bump>>) = [ok |-> TRUE, key |-> m])
                => /\ result' # "Ok"
                   /\ failed_at' = "none" =>
                         /\ Len(calls') = 1
                         /\ calls'[1].ix.name = "CreateAccount"
                         /\ Reports("AccountAlreadyInUse", "none")']_vars

\* C16 witness: a second CreateAndInitMint for an existing mint, with another
\* authority and other decimals, has been refused at create-account
C16_Witness ==
    /\ ix.op = "CreateAndInitMint"
    /\ Reports("AccountAlreadyInUse", "none")
    /\ accounts[2].key \in MintsOf(ledger)
    /\ ledger[accounts[2].key].data.mint_authority # ix.mint_authority
    /\ ledger[accounts[2].key].data.decimals # ix.decimals

\* the product amount_ui * 10^decimals is more than the balance
ExceedsBalance(amount_ui, decimals, balance) ==
    LET base == UiToBase(amount_ui, decimals)
    IN  ~base.some \/ LessBytes(balance, base.value)

\* a BurnUserTokens call as a client makes it, on ledger L: four handles with
\* the token program last, the owner signing, the holder account writable,
\* existing and linked to the mint and the owner
WellFormedBurn(L, accts) ==
    /\ Len(accts) = 4
    /\ accts[4].key = spl_token_id
    /\ accts[2].is_signer
    /\ accts[3].is_writable
    /\ Configured(L, accts[3].key, accts[1].key, accts[2].key)
    /\ SplMint_unpack(L[accts[1].key].data).ok

\* C17: a well-formed BurnUserTokens whose product amount_ui * 10^decimals is
\* more than the balance of the holder account fails with the token program's
\* failure when it gets as far as the burn call, fails in any case, and leaves
\* the ledger as it was.  Does not hold: see C3.
C17_OverdrawnBurnFails ==
    [][(/\ Called
        /\ ix'.op = "BurnUserTokens"
        /\ WellFormedBurn(ledger, accounts')
        /\ ExceedsBalance(ix'.amount_ui, ledger[accounts'[1].key].data.decimals,
                          ledger[accounts'[3].key].data.amount))
          => /\ result' # "Ok"
             /\ failed_at' = "none" => result' = "InsufficientFunds"
             /\ ledger' = ledger]_vars

\* the holder accounts of ledger L
HoldersOf(L) == {a \in AtaAddrs : SplAccount_unpack(L[a].data).ok}

\* C18: a successful BurnUserTokens changes nothing of the ledger but the
\* balance of the holder account of its third handle and the supply of the
\* mint of its first (decimals, authority, links and every other account stay),
\* and no call of this program raises the balance of a holder account.
C18_BurnFrame ==
    [][Called =>
          /\ (ix'.op = "BurnUserTokens" /\ result' = "Ok") =>
                LET ata  == accounts'[3].key
                    mint == accounts'[1].key
                IN  ledger' = [ledger EXCEPT
                                  ![ata].data.amount = ledger'[ata].data.amount,
                                  ![mint].data.supply = ledger'[mint].data.supply]
          /\ \A a \in HoldersOf(ledger) :
                /\ a \in HoldersOf(ledger')
                /\ ~LessBytes(ledger[a].data.amount, ledger'[a].data.amount)
          /\ \A a \in HoldersOf(ledger') \ HoldersOf(ledger) :
                ledger'[a].data.amount = U64(0)]_vars

\* C18 witness: a burn of 2 UI units at 6 decimals has succeeded while the
\* other holder account of the mint exists, and the supply is what is left
C18_Witness ==
    /\ ix.op = "BurnUserTokens"
    /\ result = "Ok"
    /\ ix.amount_ui = U64(2)
    /\ HoldersOf(ledger) = AtaAddrs
    /\ ledger[accounts[3].key].data.amount = U64(MINT_TO_BASE - 2000000)
    /\ ledger[accounts[1].key].data.supply = U64(MINT_TO_BASE - 2000000)
    /\ ledger[accounts[1].key].data.decimals = 6
    /\ \E a \in AtaAddrs \ {accounts[3].key} : ledger[a].data.amount = U64(0)

=============================================================================
